---------------------------- MODULE Spec2Model ----------------------------
(***************************************************************************)
(* Session lifecycle of the deep-research API: the session repository     *)
(* (in-memory SessionManager and DatabaseSessionManager), the phase-step   *)
(* route handlers with the APIDeepResearch orchestrator that writes the    *)
(* phase, and the fixed-window rate limiter behind withRateLimit.          *)
(*                                                                         *)
(* Three specifications share the module:                                  *)
(*   SpecRepo  the repository operations, applied to both managers         *)
(*   SpecRate  InMemoryRateLimiter.check behind withRateLimit              *)
(*   Spec      the route handlers, interleaved at their external awaits    *)
(***************************************************************************)
EXTENDS Integers, Sequences, FiniteSets, TLC

VARIABLES
    now,          \* the clock read by new Date() / Date.now()
    sessions,     \* InMemorySessionStore.sessions : Map<id, ResearchSession>
    dbSessions,   \* rows of the sessions table used by DatabaseSessionManager
    issued,       \* ids nanoid() has returned so far
    lastOp,       \* the last repository call and what both managers returned
    opCount,      \* number of repository calls made so far
    limits,       \* InMemoryRateLimiter.limits : Map<key, {count, resetTime}>
    rlLimit,      \* the limit passed to check for every key
    rlLog,        \* per key, the admit decisions of withRateLimit in the current window
    rlLast,       \* the last check call and its RateLimitInfo
    req,          \* the route handlers in flight, one per slot
    started,      \* number of requests received so far
    sessionStreams, \* stream-manager's Map<sessionId, Set<controller>>, in insertion order
    channels,     \* the stream controllers and what each has been handed
    sent,         \* the broadcast calls made so far: their number and the last one's session
    closed        \* ids of sessions whose stored phase has been completed or error

vars == <<now, sessions, dbSessions, issued, lastOp, opCount,
          limits, rlLimit, rlLog, rlLast, req, started, closed,
          sessionStreams, channels, sent>>

repoVars  == <<sessions, dbSessions, issued, lastOp, opCount>>
rateVars  == <<limits, rlLimit, rlLog, rlLast>>
routeVars == <<req, started, closed>>
streamVars == <<sessionStreams, channels, sent>>

---------------------------------------------------------------------------
(* Bounds of the model *)

MaxTime == 2        \* the clock runs from 0 to MaxTime
MaxOps == 3         \* repository calls per behaviour of SpecRepo
MaxLimit == 2       \* rate limits 1..MaxLimit
MaxCalls == 4       \* check calls per behaviour of SpecRate
MaxRequests == 5    \* requests received per behaviour of Spec

---------------------------------------------------------------------------
(* Values *)

Undef == "undefined"      \* a JavaScript undefined
Null == "null"            \* an SQL NULL / JavaScript null
None == <<>>              \* "no session" (null) as a result
Some(x) == <<x>>

SessionIds == {"s1", "s2"}
Users == {"A", "B"}
Phases == {"topic", "questions", "feedback", "planning", "executing", "completed", "error"}
TerminalPhases == {"completed", "error"}

\* JavaScript truthiness of an optional string
Truthy(v) == v \notin {Undef, Null, ""}

\* obj.f for an object held as a function over its own keys
Field(obj, f) == IF f \in DOMAIN obj THEN obj[f] ELSE Undef

Remove(map, k) == [x \in (DOMAIN map) \ {k} |-> map[x]]
Put(map, k, v) == [x \in (DOMAIN map) \cup {k} |-> IF x = k THEN v ELSE map[x]]

\* Date.toISOString() and new Date(iso): a string that carries the instant
ToISOString(t) == [iso |-> t]
ParseDate(s) == s.iso

\* JSON.stringify and JSON.parse: a string that carries the value
JSONStringify(v) == [json |-> v]
JSONParse(s) == s.json


---------------------------------------------------------------------------
(* Inputs of the repository calls *)

Settings == [provider |-> "google", enableReferences |-> TRUE]
ExpiresInChoices == {1, 2}          \* create's expiresIn, in clock units
AdditionalChoices == {1}            \* extendExpiration's additionalSeconds
Owners == Users \cup {Undef}        \* create's optional userId

\* The optional string fields of a ResearchSession
StringFields == {"userId", "topic", "questions", "feedback", "reportPlan",
                 "finalReport", "error", "requirement"}

\* Partial updates the callers of update pass (routes, orchestrator, test routes)
UpdateChoices ==
    { [phase |-> "questions", topic |-> "t"],
      [questions |-> "", phase |-> "questions"],
      [tasks |-> <<"q1">>],
      [phase |-> "error", error |-> "boom"] }

---------------------------------------------------------------------------
(* InMemorySessionStore and SessionManager *)

\* A create that stores the creation time as the expiry, the lifetime left out
NewSessionNoLifetime(id, settings, expiresIn, userId, t) ==
    [id |-> id, userId |-> userId, createdAt |-> t, updatedAt |-> t,
     expiresAt |-> t, phase |-> "topic", settings |-> settings]

\* SessionManager.create: the record it stores
NewSession(id, settings, expiresIn, userId, t) ==
    [id |-> id, userId |-> userId, createdAt |-> t, updatedAt |-> t,
     expiresAt |-> t + expiresIn, phase |-> "topic", settings |-> settings]

\* A get that returns whatever the map holds, expired or not
StoreGetKeepsExpired(map, id, t) ==
    IF id \notin DOMAIN map THEN [ret |-> None, map |-> map]
    ELSE [ret |-> Some(map[id]), map |-> map]

\* InMemorySessionStore.get: lazy expiry on read
StoreGet(map, id, t) ==
    IF id \notin DOMAIN map THEN [ret |-> None, map |-> map]
    ELSE IF map[id].expiresAt < t THEN [ret |-> None, map |-> Remove(map, id)]
    ELSE [ret |-> Some(map[id]), map |-> map]

\* A merge that rebuilds the record from the keys create set and the updates,
\* forgetting the payload stored since
SpreadUpdateDropsSession(session, updates, t) ==
    LET base == {"id", "userId", "createdAt", "updatedAt", "expiresAt", "phase", "settings"}
    IN  [k \in base \cup (DOMAIN updates) |->
            IF k = "updatedAt" THEN t
            ELSE IF k \in DOMAIN updates THEN updates[k] ELSE session[k]]

\* { ...session, ...updates, updatedAt: new Date() }
SpreadUpdate(session, updates, t) ==
    [k \in (DOMAIN session) \cup (DOMAIN updates) \cup {"updatedAt"} |->
        IF k = "updatedAt" THEN t
        ELSE IF k \in DOMAIN updates THEN updates[k] ELSE session[k]]

\* An update that stores its fields under the id when the session is gone
ManagerUpdateUpserts(map, id, updates, t) ==
    LET g == StoreGet(map, id, t) IN
    IF g.ret = None
    THEN LET u == SpreadUpdate(NewSession(id, Settings, 1, Undef, t), updates, t)
         IN  [ret |-> Some(u), map |-> Put(g.map, id, u)]
    ELSE LET u == SpreadUpdate(g.ret[1], updates, t)
         IN  [ret |-> Some(u), map |-> Put(g.map, id, u)]

\* SessionManager.update, its read and its write in one step
ManagerUpdate(map, id, updates, t) ==
    LET g == StoreGet(map, id, t) IN
    IF g.ret = None THEN [ret |-> None, map |-> g.map]
    ELSE LET u == SpreadUpdate(g.ret[1], updates, t)
         IN  [ret |-> Some(u), map |-> Put(g.map, id, u)]

\* A delete that skips the existence check
ManagerDeleteAlwaysTrue(map, id, t) ==
    [ret |-> TRUE, raised |-> FALSE, map |-> Remove(StoreGet(map, id, t).map, id)]

\* SessionManager.delete
ManagerDelete(map, id, t) ==
    LET g == StoreGet(map, id, t) IN
    IF g.ret = None THEN [ret |-> FALSE, raised |-> FALSE, map |-> g.map]
    ELSE [ret |-> TRUE, raised |-> FALSE, map |-> Remove(g.map, id)]

\* InMemorySessionStore.cleanup
StoreCleanup(map, t) ==
    LET expired == {id \in DOMAIN map : map[id].expiresAt < t}
    IN  [ret |-> Cardinality(expired), map |-> [id \in (DOMAIN map) \ expired |-> map[id]]]

\* An ownership check that lets every caller through when the session has no owner
ValidateOwnershipOpen(map, id, userId, t) ==
    LET g == StoreGet(map, id, t) IN
    [ret |-> g.ret # None /\ Field(g.ret[1], "userId") \in {userId, Undef}, map |-> g.map]

\* SessionManager.validateOwnership
ValidateOwnership(map, id, userId, t) ==
    LET g == StoreGet(map, id, t) IN
    [ret |-> g.ret # None /\ Field(g.ret[1], "userId") = userId, map |-> g.map]

\* SessionManager.extendExpiration
ExtendExpiration(map, id, additionalSeconds, t) ==
    LET g == StoreGet(map, id, t) IN
    IF g.ret = None THEN [ret |-> None, map |-> g.map]
    ELSE ManagerUpdate(g.map, id,
                       [expiresAt |-> g.ret[1].expiresAt + additionalSeconds], t)

---------------------------------------------------------------------------
(* DatabaseSessionManager over the sessions table *)

\* A column receives NULL for an undefined value
SqlValue(v) == IF v = Undef THEN Null ELSE v

\* x || undefined on a nullable text column
OrUndefined(v) == IF v \in {Null, ""} THEN Undef ELSE v

\* DatabaseSessionManager.create: the row it inserts
NewRow(id, settings, expiresIn, userId, t) ==
    [id |-> id, userId |-> SqlValue(userId),
     createdAt |-> ToISOString(t), updatedAt |-> ToISOString(t),
     expiresAt |-> ToISOString(t + expiresIn),
     phase |-> "topic", settings |-> JSONStringify(settings),
     requirement |-> "", version |-> 1,
     topic |-> Null, questions |-> Null, feedback |-> Null, reportPlan |-> Null,
     tasks |-> JSONStringify(<<>>), results |-> JSONStringify(<<>>),
     finalReport |-> Null, error |-> Null]

\* DatabaseSessionManager.convertDbSessionToResearchSession
ConvertDbSessionToResearchSession(row) ==
    [id |-> row.id, userId |-> OrUndefined(row.userId),
     createdAt |-> ParseDate(row.createdAt), updatedAt |-> ParseDate(row.updatedAt),
     expiresAt |-> ParseDate(row.expiresAt), phase |-> row.phase,
     topic |-> OrUndefined(row.topic), questions |-> OrUndefined(row.questions),
     feedback |-> OrUndefined(row.feedback), reportPlan |-> OrUndefined(row.reportPlan),
     finalReport |-> OrUndefined(row.finalReport), error |-> OrUndefined(row.error),
     settings |-> JSONParse(row.settings), tasks |-> JSONParse(row.tasks),
     results |-> JSONParse(row.results),
     requirement |-> IF row.requirement = Null THEN "" ELSE row.requirement,
     version |-> IF row.version = 0 THEN 1 ELSE row.version]

\* DatabaseSessionManager.delete; fault: the query throws and is caught
DbDelete(tbl, id, fault) ==
    IF fault THEN [ret |-> FALSE, raised |-> FALSE, tbl |-> tbl]
    ELSE [ret |-> id \in DOMAIN tbl, raised |-> FALSE, tbl |-> Remove(tbl, id)]

\* DatabaseSessionManager.get
DbGet(tbl, id, t, fault) ==
    IF fault \/ id \notin DOMAIN tbl THEN [ret |-> None, tbl |-> tbl]
    ELSE IF ParseDate(tbl[id].expiresAt) <= t
         THEN [ret |-> None, tbl |-> DbDelete(tbl, id, FALSE).tbl]
         ELSE [ret |-> Some(ConvertDbSessionToResearchSession(tbl[id])), tbl |-> tbl]

\* updates.f !== undefined
Defined(updates, f) ==
    f \in DOMAIN updates /\ (f \in StringFields => updates[f] # Undef)

\* The column value update writes for field f
DbColumnValue(updates, f) ==
    IF f = "expiresAt" THEN ToISOString(updates[f])
    ELSE IF f \in {"settings", "tasks", "results"} THEN JSONStringify(updates[f])
    ELSE updates[f]

\* The columns update maps from a ResearchSession update
DbMappedFields == {"userId", "expiresAt", "phase", "topic", "questions", "feedback",
                   "reportPlan", "finalReport", "error", "settings", "tasks",
                   "results", "requirement", "version"}

\* DatabaseSessionManager.update: one UPDATE ... WHERE id, then get
DbUpdate(tbl, id, updates, t, fault) ==
    IF fault THEN [ret |-> None, tbl |-> tbl]
    ELSE LET set == {f \in DbMappedFields : Defined(updates, f)}
             row == [k \in DOMAIN tbl[id] |->
                        IF k = "updatedAt" THEN ToISOString(t)
                        ELSE IF k \in set THEN DbColumnValue(updates, k)
                        ELSE tbl[id][k]]
             tbl2 == IF id \in DOMAIN tbl THEN Put(tbl, id, row) ELSE tbl
         IN  DbGet(tbl2, id, t, FALSE)

\* DatabaseSessionManager.cleanup
DbCleanup(tbl, t, fault) ==
    IF fault THEN [ret |-> 0, tbl |-> tbl]
    ELSE LET expired == {id \in DOMAIN tbl : ParseDate(tbl[id].expiresAt) < t}
         IN  [ret |-> Cardinality(expired), tbl |-> [id \in (DOMAIN tbl) \ expired |-> tbl[id]]]

\* DatabaseSessionManager.extendExpiration
DbExtendExpiration(tbl, id, additionalSeconds, t, fault) ==
    LET g == DbGet(tbl, id, t, fault) IN
    IF g.ret = None THEN [ret |-> None, tbl |-> g.tbl]
    ELSE DbUpdate(g.tbl, id, [expiresAt |-> g.ret[1].expiresAt + additionalSeconds], t, FALSE)

---------------------------------------------------------------------------
(* SpecRepo: the repository calls, each made on both managers *)

NoOp == [op |-> "none"]

\* What a call is remembered by: the call, both stores before it, both results,
\* the ids deleted so far and the ids of created sessions a get has found absent
OpRecord(op, id, updates, fault, m, d) ==
    [op |-> op, id |-> id, updates |-> updates, fault |-> fault, t |-> now,
     preMem |-> sessions, preDb |-> dbSessions,
     mem |-> m.ret, db |-> d.ret, raised |-> FALSE,
     deletedBefore |-> IF lastOp.op = "none" THEN {}
                       ELSE IF lastOp.op = "delete" /\ lastOp.mem /\ lastOp.db
                            THEN lastOp.deletedBefore \cup {lastOp.id}
                            ELSE lastOp.deletedBefore,
     absentMem |-> (IF lastOp.op = "none" THEN {} ELSE lastOp.absentMem)
                       \cup IF op = "get" /\ id \in issued /\ m.ret = None
                            THEN {id} ELSE {},
     absentDb |-> (IF lastOp.op = "none" THEN {} ELSE lastOp.absentDb)
                       \cup IF op = "get" /\ id \in issued /\ d.ret = None
                            THEN {id} ELSE {}]

RepoFrame == UNCHANGED <<now, rateVars, routeVars, streamVars>>

\* The clock advances
Tick ==
    /\ now < MaxTime
    /\ now' = now + 1
    /\ UNCHANGED <<repoVars, rateVars, routeVars, streamVars>>

\* create(settings, expiresIn, userId) on both managers, nanoid() giving a fresh id
RepoCreate ==
    /\ opCount < MaxOps
    /\ issued # SessionIds
    /\ \E userId \in Owners, expiresIn \in ExpiresInChoices :
         LET id == CHOOSE x \in SessionIds \ issued : TRUE
             s == NewSession(id, Settings, expiresIn, userId, now)
             r == NewRow(id, Settings, expiresIn, userId, now)
         IN  /\ sessions' = Put(sessions, id, s)
             /\ dbSessions' = Put(dbSessions, id, r)
             /\ issued' = issued \cup {id}
             /\ lastOp' = OpRecord("create", id, [userId |-> userId], FALSE,
                                   [ret |-> Some(s)],
                                   [ret |-> Some(ConvertDbSessionToResearchSession(r))])
    /\ opCount' = opCount + 1
    /\ RepoFrame

\* get(id) on both managers
RepoGet ==
    /\ opCount < MaxOps
    /\ \E id \in SessionIds, fault \in {FALSE} :
         LET m == StoreGet(sessions, id, now)
             d == DbGet(dbSessions, id, now, fault)
         IN  /\ sessions' = m.map
             /\ dbSessions' = d.tbl
             /\ lastOp' = OpRecord("get", id, <<>>, fault, m, d)
    /\ opCount' = opCount + 1
    /\ UNCHANGED issued
    /\ RepoFrame

\* update(id, updates) on both managers
RepoUpdate ==
    /\ opCount < MaxOps
    /\ \E id \in SessionIds, updates \in UpdateChoices, fault \in {FALSE} :
         LET m == ManagerUpdate(sessions, id, updates, now)
             d == DbUpdate(dbSessions, id, updates, now, fault)
         IN  /\ sessions' = m.map
             /\ dbSessions' = d.tbl
             /\ lastOp' = OpRecord("update", id, updates, fault, m, d)
    /\ opCount' = opCount + 1
    /\ UNCHANGED issued
    /\ RepoFrame

\* delete(id) on both managers
RepoDelete ==
    /\ opCount < MaxOps
    /\ \E id \in SessionIds, fault \in BOOLEAN :
         LET m == ManagerDelete(sessions, id, now)
             d == DbDelete(dbSessions, id, fault)
         IN  /\ sessions' = m.map
             /\ dbSessions' = d.tbl
             /\ lastOp' = [OpRecord("delete", id, <<>>, fault, m, d) EXCEPT
                              !.raised = m.raised \/ d.raised]
    /\ opCount' = opCount + 1
    /\ UNCHANGED issued
    /\ RepoFrame

\* extendExpiration(id, additionalSeconds) on both managers
RepoExtend ==
    /\ opCount < MaxOps
    /\ \E id \in SessionIds, add \in AdditionalChoices, fault \in {FALSE} :
         LET m == ExtendExpiration(sessions, id, add, now)
             d == DbExtendExpiration(dbSessions, id, add, now, fault)
         IN  /\ sessions' = m.map
             /\ dbSessions' = d.tbl
             /\ lastOp' = OpRecord("extend", id, [expiresAt |-> add], fault, m, d)
    /\ opCount' = opCount + 1
    /\ UNCHANGED issued
    /\ RepoFrame

\* cleanup() on both managers
RepoCleanup ==
    /\ opCount < MaxOps
    /\ \E fault \in {FALSE} :
         LET m == StoreCleanup(sessions, now)
             d == DbCleanup(dbSessions, now, fault)
         IN  /\ sessions' = m.map
             /\ dbSessions' = d.tbl
             /\ lastOp' = OpRecord("cleanup", "", <<>>, fault, m, d)
    /\ opCount' = opCount + 1
    /\ UNCHANGED issued
    /\ RepoFrame

InitCommon ==
    /\ now = 0
    /\ sessions = <<>>
    /\ dbSessions = <<>>
    /\ issued = {}
    /\ lastOp = NoOp
    /\ opCount = 0
    /\ limits = <<>>
    /\ rlLimit = 1
    /\ rlLog = <<>>
    /\ rlLast = NoOp
    /\ req = <<>>
    /\ started = 0
    /\ closed = {}
    /\ sessionStreams = <<>>
    /\ channels = <<>>
    /\ sent = [count |-> 0, sessionId |-> Undef]

InitRepo == InitCommon

NextRepo ==
    \/ Tick
    \/ RepoCreate
    \/ RepoGet
    \/ RepoUpdate
    \/ RepoDelete
    \/ RepoExtend
    \/ RepoCleanup

SpecRepo == InitRepo /\ [][NextRepo]_vars

---------------------------------------------------------------------------
(* Claims on the repository, under SpecRepo *)

\* The session a successful lastOp acted on, before and after, in each manager
PreMem == lastOp.preMem[lastOp.id]
PostMem == sessions[lastOp.id]
PreRow == lastOp.preDb[lastOp.id]
PostRow == dbSessions[lastOp.id]

\* The version counter of a record; 0 when the record carries none
VersionOf(rec) == IF "version" \in DOMAIN rec THEN rec.version ELSE 0

\* C8: update(id, partial) on an existing session changes only the fields named
\* in the partial update and updatedAt: every other field of the session, id and
\* createdAt among them, keeps its pre-update value (in the in-memory record and
\* in the database row), and no other session is touched.
C8_UpdateChangesOnlyNamedFields ==
    lastOp.op = "update" =>
        LET named == (DOMAIN lastOp.updates) \cup {"updatedAt"} IN
        /\ lastOp.mem # None =>
             /\ \A k \in (DOMAIN PreMem) \ named :
                    k \in DOMAIN PostMem /\ PostMem[k] = PreMem[k]
             /\ DOMAIN PostMem \subseteq (DOMAIN PreMem) \cup named
             /\ PostMem.id = PreMem.id /\ PostMem.createdAt = PreMem.createdAt
             /\ \A k \in DOMAIN lastOp.updates : PostMem[k] = lastOp.updates[k]
             /\ \A o \in SessionIds \ {lastOp.id} :
                    /\ (o \in DOMAIN sessions) = (o \in DOMAIN lastOp.preMem)
                    /\ o \in DOMAIN sessions => sessions[o] = lastOp.preMem[o]
        /\ lastOp.db # None =>
             /\ \A k \in (DOMAIN PreRow) \ named : PostRow[k] = PreRow[k]
             /\ PostRow.id = PreRow.id /\ PostRow.createdAt = PreRow.createdAt
             /\ \A o \in SessionIds \ {lastOp.id} :
                    /\ (o \in DOMAIN dbSessions) = (o \in DOMAIN lastOp.preDb)
                    /\ o \in DOMAIN dbSessions => dbSessions[o] = lastOp.preDb[o]

\* An update that succeeded on both managers, on a session that already held a
\* topic the update does not name
C8_Witness ==
    /\ lastOp.op = "update"
    /\ lastOp.mem # None /\ lastOp.db # None
    /\ "topic" \notin DOMAIN lastOp.updates
    /\ Field(PreMem, "topic") = "t" /\ PreRow.topic = "t"

\* C9: every successful update of a session increases its version counter by one.
C9_UpdateBumpsVersion ==
    lastOp.op = "update" =>
        /\ lastOp.mem # None => VersionOf(PostMem) = VersionOf(PreMem) + 1
        /\ lastOp.db # None => VersionOf(PostRow) = VersionOf(PreRow) + 1

\* C10: delete(id) on an existing session returns true and removes it; a second
\* delete(id), and delete of an id that never existed, return false; no delete
\* raises. (A database delete whose query fails is caught and returns false.)
C10_DeleteTrueThenFalse ==
    lastOp.op = "delete" =>
        LET id == lastOp.id
            liveMem == id \in DOMAIN lastOp.preMem /\ lastOp.preMem[id].expiresAt >= lastOp.t
        IN  /\ ~lastOp.raised
            /\ lastOp.mem \in BOOLEAN /\ lastOp.db \in BOOLEAN
            /\ id \notin DOMAIN sessions
            /\ liveMem => lastOp.mem
            /\ id \notin DOMAIN lastOp.preMem => ~lastOp.mem
            /\ id \in lastOp.deletedBefore => ~lastOp.mem /\ ~lastOp.db
            /\ id \notin issued => ~lastOp.mem /\ ~lastOp.db
            /\ ~lastOp.fault =>
                 /\ id \notin DOMAIN dbSessions
                 /\ lastOp.db = (id \in DOMAIN lastOp.preDb)

\* A second delete of an id whose first delete returned true
C10_Witness ==
    /\ lastOp.op = "delete"
    /\ lastOp.id \in lastOp.deletedBefore
    /\ ~lastOp.mem /\ ~lastOp.db

\* C11: a session whose expiresAt is in the past is absent for get, whether the
\* record is still stored or has been removed, in both managers; the get that
\* finds it expired removes it, and a repeated get is absent again.
C11_ExpiredIsAbsent ==
    /\ \A id \in DOMAIN sessions :
          sessions[id].expiresAt < now =>
              LET g == StoreGet(sessions, id, now)
              IN  g.ret = None /\ StoreGet(g.map, id, now).ret = None
    /\ \A id \in DOMAIN dbSessions :
          ParseDate(dbSessions[id].expiresAt) < now =>
              LET g == DbGet(dbSessions, id, now, FALSE)
              IN  g.ret = None /\ DbGet(g.tbl, id, now, FALSE).ret = None
    /\ lastOp.op = "get" =>
          LET id == lastOp.id IN
          /\ (id \in DOMAIN lastOp.preMem /\ lastOp.preMem[id].expiresAt < lastOp.t)
                => lastOp.mem = None /\ id \notin DOMAIN sessions
          /\ (id \in DOMAIN lastOp.preDb /\ ParseDate(lastOp.preDb[id].expiresAt) < lastOp.t)
                => lastOp.db = None /\ id \notin DOMAIN dbSessions
          /\ id \notin DOMAIN lastOp.preMem => lastOp.mem = None
          /\ id \notin DOMAIN lastOp.preDb => lastOp.db = None

\* A get of a session that had expired and was still stored in both managers
C11_Witness ==
    /\ lastOp.op = "get"
    /\ lastOp.id \in DOMAIN lastOp.preMem /\ lastOp.id \in DOMAIN lastOp.preDb
    /\ lastOp.preMem[lastOp.id].expiresAt < lastOp.t
    /\ lastOp.mem = None /\ lastOp.db = None

---------------------------------------------------------------------------
(* The rate limiter: InMemoryRateLimiter.check, checkRateLimit, withRateLimit *)

WindowMs == 1                        \* the window, in clock units
Endpoints == {"sessions:create", "sessions:execute"}

\* checkRateLimit's key
RateKey(userId, endpoint) == <<userId, endpoint>>

\* A check that opens a window without counting the call that opened it
RateCheckStartsAtZero(lim, key, limit, windowMs, t) ==
    IF key \notin DOMAIN lim \/ t > lim[key].resetTime
    THEN [info |-> [remaining |-> limit, resetTime |-> t + windowMs, limit |-> limit],
          limits |-> Put(lim, key, [count |-> 0, resetTime |-> t + windowMs])]
    ELSE IF lim[key].count >= limit
    THEN [info |-> [remaining |-> 0, resetTime |-> lim[key].resetTime, limit |-> limit],
          limits |-> lim]
    ELSE [info |-> [remaining |-> limit - (lim[key].count + 1),
                    resetTime |-> lim[key].resetTime, limit |-> limit],
          limits |-> Put(lim, key, [lim[key] EXCEPT !.count = @ + 1])]

\* A check that counts a refused call as well
RateCheckCountsRefused(lim, key, limit, windowMs, t) ==
    IF key \notin DOMAIN lim \/ t > lim[key].resetTime
    THEN [info |-> [remaining |-> limit - 1, resetTime |-> t + windowMs, limit |-> limit],
          limits |-> Put(lim, key, [count |-> 1, resetTime |-> t + windowMs])]
    ELSE IF lim[key].count >= limit
    THEN [info |-> [remaining |-> 0, resetTime |-> lim[key].resetTime, limit |-> limit],
          limits |-> Put(lim, key, [lim[key] EXCEPT !.count = @ + 1])]
    ELSE [info |-> [remaining |-> limit - (lim[key].count + 1),
                    resetTime |-> lim[key].resetTime, limit |-> limit],
          limits |-> Put(lim, key, [lim[key] EXCEPT !.count = @ + 1])]

\* A check that already starts a new window at the instant the old one ends
RateCheckResetsAtEnd(lim, key, limit, windowMs, t) ==
    IF key \notin DOMAIN lim \/ t >= lim[key].resetTime
    THEN [info |-> [remaining |-> limit - 1, resetTime |-> t + windowMs, limit |-> limit],
          limits |-> Put(lim, key, [count |-> 1, resetTime |-> t + windowMs])]
    ELSE IF lim[key].count >= limit
    THEN [info |-> [remaining |-> 0, resetTime |-> lim[key].resetTime, limit |-> limit],
          limits |-> lim]
    ELSE [info |-> [remaining |-> limit - (lim[key].count + 1),
                    resetTime |-> lim[key].resetTime, limit |-> limit],
          limits |-> Put(lim, key, [lim[key] EXCEPT !.count = @ + 1])]

\* InMemoryRateLimiter.check
RateCheck(lim, key, limit, windowMs, t) ==
    IF key \notin DOMAIN lim \/ t > lim[key].resetTime
    THEN [info |-> [remaining |-> limit - 1, resetTime |-> t + windowMs, limit |-> limit],
          limits |-> Put(lim, key, [count |-> 1, resetTime |-> t + windowMs])]
    ELSE IF lim[key].count >= limit
    THEN [info |-> [remaining |-> 0, resetTime |-> lim[key].resetTime, limit |-> limit],
          limits |-> lim]
    ELSE [info |-> [remaining |-> limit - (lim[key].count + 1),
                    resetTime |-> lim[key].resetTime, limit |-> limit],
          limits |-> Put(lim, key, [lim[key] EXCEPT !.count = @ + 1])]

\* A sweep that removes a counter at the instant its window ends
RateCleanupAtEnd(lim, t) == [k \in {x \in DOMAIN lim : ~(t >= lim[x].resetTime)} |-> lim[k]]

\* InMemoryRateLimiter.cleanup
RateCleanup(lim, t) == [k \in {x \in DOMAIN lim : ~(t > lim[x].resetTime)} |-> lim[k]]

\* checkRateLimit: the key and the endpoint's configured limit and window
CheckRateLimit(lim, userId, endpoint, limit, t) ==
    RateCheck(lim, RateKey(userId, endpoint), limit, WindowMs, t)

\* A gate that lets every request through
AdmittedAlways(info) == TRUE

\* withRateLimit's decision: the handler runs unless remaining <= 0
Admitted(info) == ~(info.remaining <= 0)

\* A request passes withRateLimit (production mode, authenticated caller)
WithRateLimit ==
    /\ Len(rlLog) < MaxCalls
    /\ \E userId \in Users, endpoint \in Endpoints :
         LET key == RateKey(userId, endpoint)
             fresh == key \notin DOMAIN limits \/ now > limits[key].resetTime
             r == CheckRateLimit(limits, userId, endpoint, rlLimit, now)
             entry == [key |-> key, t |-> now, info |-> r.info,
                       admitted |-> Admitted(r.info),
                       status |-> IF Admitted(r.info) THEN 200 ELSE 429,
                       \* position of the call in its window, counted from 1
                       nth |-> IF fresh THEN 1
                               ELSE 1 + Cardinality({i \in 1..Len(rlLog) :
                                        /\ rlLog[i].key = key
                                        /\ rlLog[i].info.resetTime = limits[key].resetTime})]
         IN  /\ limits' = r.limits
             /\ rlLog' = Append(rlLog, entry)
             /\ rlLast' = entry
    /\ UNCHANGED <<now, rlLimit, repoVars, routeVars, streamVars>>

\* The periodic sweep
RateSweep ==
    /\ limits' = RateCleanup(limits, now)
    /\ limits' # limits
    /\ UNCHANGED <<now, rlLimit, rlLog, rlLast, repoVars, routeVars, streamVars>>

InitRate ==
    /\ now = 0
    /\ sessions = <<>>
    /\ dbSessions = <<>>
    /\ issued = {}
    /\ lastOp = NoOp
    /\ opCount = 0
    /\ limits = <<>>
    /\ rlLimit \in 1..MaxLimit
    /\ rlLog = <<>>
    /\ rlLast = NoOp
    /\ req = <<>>
    /\ started = 0
    /\ closed = {}
    /\ sessionStreams = <<>>
    /\ channels = <<>>
    /\ sent = [count |-> 0, sessionId |-> Undef]

NextRate ==
    \/ Tick
    \/ WithRateLimit
    \/ RateSweep

SpecRate == InitRate /\ [][NextRate]_vars

\* C7: with a limit of L requests per window, of L+1 requests made for the same
\* (subject, operation) inside one window the first L are admitted and the
\* (L+1)-th is denied, reporting remaining = 0.
C7_FirstLAdmitted ==
    \A i \in 1..Len(rlLog) :
        /\ rlLog[i].nth <= rlLimit => rlLog[i].admitted
        /\ rlLog[i].nth = rlLimit + 1 =>
               ~rlLog[i].admitted /\ rlLog[i].info.remaining = 0

---------------------------------------------------------------------------
(* Spec: the route handlers of one session.                                  *)
(* Both session stores answer synchronously behind their promises (a Map,    *)
(* better-sqlite3), so a handler awaiting the session manager is resumed     *)
(* from the microtask queue before any other request's callback runs. A      *)
(* step is therefore the code a handler runs between two awaits of external  *)
(* I/O: the request body, the model calls, the search calls.                 *)

Slots == {"r1", "r2"}
RouteSession == "s1"
StepKinds == {"questions", "feedback", "plan", "execute", "refine"}
RouteOwners == {"A", Undef}
TaskLists == {<<"q1", "q2", "q3">>}
Idle == [pc |-> "idle"]

\* The validated request bodies of each route
Bodies(kind) ==
    CASE kind = "questions" -> {[topic |-> "t"]}
      [] kind = "feedback" -> {[feedback |-> "f"]}
      [] kind = "plan" -> {[topic |-> Undef, feedback |-> Undef]}
      [] kind = "execute" -> {[reportPlan |-> "p"]}
      [] kind = "refine" -> {[phase |-> "questions", refinement |-> "q"],
                             [phase |-> "feedback", refinement |-> "f"],
                             [phase |-> "planning", refinement |-> "p"],
                             [phase |-> "executing", refinement |-> "p"]}
      [] kind = "suggestion" -> {[suggestion |-> "g"]}

\* withAuth admits authenticated callers only; the suggestion route authenticates
\* without requiring it
Callers(kind) == IF kind \in StepKinds THEN Users ELSE Users \cup {Undef}

\* a || b on optional strings
OrElse(a, b) == IF Truthy(a) THEN a ELSE b

\* `${topic}\n\nRefinements: ${feedback}` when there is feedback
FinalTopic(topic, feedback) == IF Truthy(feedback) THEN "t+f" ELSE topic

\* The plan route's topic: data.topic || session.topic
PlanTopic(session, body) == OrElse(body.topic, Field(session, "topic"))

\* The refine route's rejections: terminal session, or target phase executing
RefineRejects(session, body) ==
    \/ session.phase = "completed" \/ session.phase = "error"
    \/ body.phase = "executing"

\* Precondition checks that look at the required fields only and skip the
\* comparison of the stored phase
RejectsFieldsOnly(kind, session, body) ==
    CASE kind = "questions" -> FALSE
      [] kind = "feedback" ->
            ~Truthy(Field(session, "topic")) \/ ~Truthy(Field(session, "questions"))
      [] kind = "plan" -> ~Truthy(PlanTopic(session, body))
      [] kind = "execute" ->
            ~Truthy(Field(session, "reportPlan")) \/ "tasks" \notin DOMAIN session
      [] kind = "refine" -> FALSE
      [] kind = "suggestion" -> FALSE

\* The precondition checks of each route on the session it read: TRUE when the
\* request is rejected with status 400
Rejects(kind, session, body) ==
    CASE kind = "questions" -> session.phase # "topic"
      [] kind = "feedback" ->
            \/ session.phase # "questions"
            \/ ~Truthy(Field(session, "topic")) \/ ~Truthy(Field(session, "questions"))
      [] kind = "plan" ->
            \/ session.phase \notin {"questions", "feedback"}
            \/ ~Truthy(PlanTopic(session, body))
      [] kind = "execute" ->
            \/ session.phase # "planning"
            \/ ~Truthy(Field(session, "reportPlan")) \/ "tasks" \notin DOMAIN session
      [] kind = "refine" -> RefineRejects(session, body)
      [] kind = "suggestion" -> FALSE

\* The first update an accepted request issues
FirstUpdate(kind, session, body) ==
    CASE kind = "questions" -> [phase |-> "questions", topic |-> body.topic]
      [] kind = "feedback" -> [phase |-> "feedback", feedback |-> body.feedback]
      [] kind = "plan" ->
            [phase |-> "planning",
             topic |-> FinalTopic(PlanTopic(session, body),
                                  OrElse(body.feedback, Field(session, "feedback")))]
      [] kind = "execute" -> [phase |-> "executing"]
      [] kind = "refine" ->
            IF body.phase = "questions"
            THEN [phase |-> body.phase, questions |-> body.refinement]
            ELSE IF body.phase = "feedback"
            THEN [phase |-> body.phase, feedback |-> body.refinement]
            ELSE [phase |-> body.phase, reportPlan |-> body.refinement]
      [] kind = "suggestion" -> [suggestion |-> body.suggestion]

\* Where the handler continues once its first update has resolved
AfterFirst(kind) ==
    CASE kind = "questions" -> "ext_questions"
      [] kind = "feedback" -> "ext_feedback"
      [] kind = "plan" -> "ext_plan"
      [] kind = "execute" -> "ext_search"

\* An update that stores only the results of the tasks that succeeded
SuccessUpdateDropsFailed(step, out) ==
    CASE step = "ext_questions" -> [questions |-> out, phase |-> "questions"]
      [] step = "ext_feedback" -> [phase |-> "feedback"]
      [] step = "ext_plan" -> [reportPlan |-> out, phase |-> "planning"]
      [] step = "ext_serp" -> [tasks |-> out]
      [] step = "ext_search" -> [results |-> SelectSeq(out, LAMBDA e : e.state = "completed")]
      [] step = "ext_report" -> [finalReport |-> out, phase |-> "completed"]

\* The update an orchestrator step issues when its external call returns
SuccessUpdate(step, out) ==
    CASE step = "ext_questions" -> [questions |-> out, phase |-> "questions"]
      [] step = "ext_feedback" -> [phase |-> "feedback"]
      [] step = "ext_plan" -> [reportPlan |-> out, phase |-> "planning"]
      [] step = "ext_serp" -> [tasks |-> out]
      [] step = "ext_search" -> [results |-> out]
      [] step = "ext_report" -> [finalReport |-> out, phase |-> "completed"]

\* Where the handler continues after that update
AfterSuccess(step) ==
    CASE step = "ext_plan" -> "ext_serp"
      [] step = "ext_search" -> "ext_report"
      [] OTHER -> "ok"

\* DeepResearch.runSearchTask (the base class): every task ends with an outcome
\* of its own, a failed search is recorded on its task and is not thrown
RunSearchTask(tasks, outcome) ==
    [i \in DOMAIN tasks |-> [query |-> tasks[i], state |-> outcome[i]]]

\* The outcomes of the searches of one execution: all succeed, the second fails,
\* all fail
SearchOutcomes(tasks) ==
    {[i \in DOMAIN tasks |-> "completed"],
     [i \in DOMAIN tasks |-> IF i = 2 THEN "failed" ELSE "completed"],
     [i \in DOMAIN tasks |-> "failed"]}

\* What the external call of a step may return
Outputs(step, r) ==
    CASE step = "ext_questions" -> {"q"}
      [] step = "ext_feedback" -> {"d"}
      [] step = "ext_plan" -> {"p"}
      [] step = "ext_serp" -> TaskLists
      [] step = "ext_search" ->
            {RunSearchTask(r.tasks, o) : o \in SearchOutcomes(r.tasks)}
      [] step = "ext_report" -> {"R"}

ExternalSteps == {"ext_questions", "ext_feedback", "ext_plan", "ext_serp",
                  "ext_search", "ext_report"}

\* The messages of the errors an external call throws
ThrownMessages == {"boom"}

\* A catch that records the message and leaves the phase as it is
ErrorUpdateKeepsPhase(message) == [error |-> message]

\* The update written when a step fails
ErrorUpdate(message) == [phase |-> "error", error |-> message]

\* The response is sent; the slot keeps the request and its outcome
Done(r, status) ==
    [pc |-> "done", kind |-> r.kind, subject |-> r.subject, owner |-> r.owner,
     late |-> r.late, status |-> status, thrown |-> r.thrown]

\* A request as it arrives: late when the session had reached a terminal phase before
Arrived(kind, subject) ==
    [pc |-> "get", kind |-> kind, subject |-> subject, owner |-> Undef,
     late |-> RouteSession \in closed, tasks |-> <<>>, thrown |-> Undef]

\* The handler has read the session
Read(r, session) ==
    [r EXCEPT !.owner = Field(session, "userId")]

\* The sessions whose stored phase is terminal after the step
Track ==
    closed' = closed \cup {id \in DOMAIN sessions' : sessions'[id].phase \in TerminalPhases}

RouteFrame == UNCHANGED <<now, dbSessions, issued, lastOp, opCount, rateVars, streamVars>>

FreeSlot(slot) ==
    /\ req[slot].pc \in {"idle", "done"}
    /\ \A o \in Slots : (o # slot /\ req[o].pc \in {"idle", "done"}) => slot = "r1"

\* POST /api/research/sessions: create with the caller as owner (or a session
\* restored without an owner)
CreateSession ==
    /\ issued = {}
    /\ \E owner \in RouteOwners :
         sessions' = Put(sessions, RouteSession,
                         NewSession(RouteSession, Settings, 2, owner, now))
    /\ issued' = {RouteSession}
    /\ UNCHANGED <<now, dbSessions, lastOp, opCount, rateVars, routeVars, streamVars>>

\* A phase-step POST from its arrival to its first external await: get,
\* validateOwnership, the precondition checks and the first update
PhaseStep(slot, kind, subject, body) ==
    LET r == Arrived(kind, subject)
        g == StoreGet(sessions, RouteSession, now)
    IN  IF g.ret = None
        THEN /\ sessions' = g.map
             /\ req' = [req EXCEPT ![slot] = Done(r, 404)]
        ELSE LET session == g.ret[1]
                 v == ValidateOwnership(g.map, RouteSession, subject, now)
                 r1 == Read(r, session)
             IN  IF ~v.ret
                 THEN /\ sessions' = v.map
                      /\ req' = [req EXCEPT ![slot] = Done(r1, 403)]
                 ELSE IF Rejects(kind, session, body)
                 THEN /\ sessions' = v.map
                      /\ req' = [req EXCEPT ![slot] = Done(r1, 400)]
                 ELSE LET u == ManagerUpdate(v.map, RouteSession,
                                             FirstUpdate(kind, session, body), now)
                      IN  /\ sessions' = u.map
                          /\ req' = [req EXCEPT ![slot] =
                                IF kind = "refine"
                                THEN Done(r1, IF u.ret = None THEN 500 ELSE 200)
                                ELSE [r1 EXCEPT !.pc = AfterFirst(kind),
                                                !.tasks = IF kind = "execute"
                                                          THEN session.tasks ELSE <<>>]]

Post(kind) ==
    /\ started < MaxRequests
    /\ issued # {}
    /\ \E slot \in Slots, subject \in Callers(kind), body \in Bodies(kind) :
         /\ FreeSlot(slot)
         /\ PhaseStep(slot, kind, subject, body)
    /\ started' = started + 1
    /\ Track
    /\ RouteFrame

\* POST .../questions
PostQuestions == Post("questions")

\* POST .../feedback
PostFeedback == Post("feedback")

\* POST .../plan
PostPlan == Post("plan")

\* POST .../execute
PostExecute == Post("execute")

\* POST .../refine
PostRefine == Post("refine")

\* PUT .../suggestion up to await request.json(): the ownership check runs only
\* for a caller that presented an identity
PutSuggestion ==
    /\ started < MaxRequests
    /\ issued # {}
    /\ \E slot \in Slots, subject \in Callers("suggestion") :
         LET r == Arrived("suggestion", subject)
             g == StoreGet(sessions, RouteSession, now)
             v == ValidateOwnership(g.map, RouteSession, subject, now)
         IN  /\ FreeSlot(slot)
             /\ IF g.ret = None
                THEN /\ sessions' = g.map
                     /\ req' = [req EXCEPT ![slot] = Done(r, 404)]
                ELSE IF Truthy(subject) /\ ~v.ret
                THEN /\ sessions' = v.map
                     /\ req' = [req EXCEPT ![slot] = Done(Read(r, g.ret[1]), 403)]
                ELSE /\ sessions' = IF Truthy(subject) THEN v.map ELSE g.map
                     /\ req' = [req EXCEPT ![slot] =
                                   [Read(r, g.ret[1]) EXCEPT !.pc = "body"]]
    /\ started' = started + 1
    /\ Track
    /\ RouteFrame

\* PUT .../suggestion once the body has arrived: update({ suggestion })
SuggestionBody(slot) ==
    LET r == req[slot]
    IN  /\ r.pc = "body"
        /\ \E body \in Bodies("suggestion") :
             sessions' = ManagerUpdate(sessions, RouteSession,
                                       FirstUpdate("suggestion", <<>>, body), now).map
        /\ req' = [req EXCEPT ![slot] = Done(r, 200)]
        /\ UNCHANGED started
        /\ Track
        /\ RouteFrame

\* The external call of an orchestrator step returns: the step's update, then
\* the next step's external call or the success response
ExternalReturns(slot) ==
    LET r == req[slot]
    IN  /\ r.pc \in ExternalSteps
        /\ \E out \in Outputs(r.pc, r) :
             sessions' = ManagerUpdate(sessions, RouteSession,
                                       SuccessUpdate(r.pc, out), now).map
        /\ req' = [req EXCEPT ![slot] =
                      IF AfterSuccess(r.pc) = "ok" THEN Done(r, 200)
                      ELSE [r EXCEPT !.pc = AfterSuccess(r.pc), !.tasks = <<>>]]
        /\ UNCHANGED started
        /\ Track
        /\ RouteFrame

\* The external call throws: the orchestrator's catch writes phase error and
\* rethrows, the route's catch writes it again and answers 500
ExternalThrows(slot) ==
    LET r == req[slot]
    IN  /\ r.pc \in ExternalSteps
        /\ \E message \in ThrownMessages :
             LET first == ManagerUpdate(sessions, RouteSession, ErrorUpdate(message), now)
             IN  /\ sessions' = ManagerUpdate(first.map, RouteSession,
                                              ErrorUpdate(message), now).map
                 /\ req' = [req EXCEPT ![slot] = Done([r EXCEPT !.thrown = message], 500)]
        /\ UNCHANGED started
        /\ Track
        /\ RouteFrame

Init ==
    /\ now = 0
    /\ sessions = <<>>
    /\ dbSessions = <<>>
    /\ issued = {}
    /\ lastOp = NoOp
    /\ opCount = 0
    /\ limits = <<>>
    /\ rlLimit = 1
    /\ rlLog = <<>>
    /\ rlLast = NoOp
    /\ req = [slot \in Slots |-> Idle]
    /\ started = 0
    /\ closed = {}
    /\ sessionStreams = <<>>
    /\ channels = <<>>
    /\ sent = [count |-> 0, sessionId |-> Undef]

Next ==
    \/ CreateSession
    \/ PostQuestions
    \/ PostFeedback
    \/ PostPlan
    \/ PostExecute
    \/ PostRefine
    \/ PutSuggestion
    \/ \E slot \in Slots : SuggestionBody(slot)
    \/ \E slot \in Slots : ExternalReturns(slot)
    \/ \E slot \in Slots : ExternalThrows(slot)

Spec == Init /\ [][Next]_vars

---------------------------------------------------------------------------
(* Claims about the route handlers, checked under Spec.                      *)

\* C1: every change of a session's stored phase follows an edge of the
\* transition table: topic->questions, questions->feedback,
\* questions|feedback->planning, planning->executing, executing->completed,
\* refine from a non-terminal non-executing phase to questions, feedback or
\* planning, and any phase to error.
C1_PhaseFollowsTable ==
    [][\A id \in (DOMAIN sessions) \cap (DOMAIN sessions') :
         LET from == sessions[id].phase
             to == sessions'[id].phase
         IN  from # to =>
               \/ to = "error"
               \/ from = "topic" /\ to = "questions"
               \/ from = "questions" /\ to = "feedback"
               \/ from \in {"questions", "feedback"} /\ to = "planning"
               \/ from = "planning" /\ to = "executing"
               \/ from = "executing" /\ to = "completed"
               \/ /\ from \in {"topic", "questions", "feedback", "planning"}
                  /\ to \in {"questions", "feedback", "planning"}]_vars

\* C2: of the execute requests in flight on a session, at most one has left
\* the precondition check and runs the search or report step.
C2_OneExecuteRuns ==
    Cardinality({slot \in Slots : req[slot].pc \in {"ext_search", "ext_report"}}) <= 1

\* C3: a phase-step request that arrives after the session's phase has been
\* completed or error is rejected with a failure response and starts no step.
C3_TerminalRejectsLater ==
    \A slot \in Slots :
        (req[slot].pc # "idle" /\ req[slot].kind \in StepKinds /\ req[slot].late)
            => req[slot].pc = "done" /\ req[slot].status \in {400, 403, 404}

\* C4: a refine request handled while the stored phase is executing is
\* rejected, whatever target phase it names, and leaves the session as it was.
C4_RefineRejectedWhileExecuting ==
    [][\A slot \in Slots :
         (/\ started' # started
          /\ FreeSlot(slot)
          /\ req'[slot].kind = "refine"
          /\ sessions[RouteSession].phase = "executing")
            => req'[slot].status # 200 /\ sessions' = sessions]_vars

C6_NonOwnerRefused ==
    \A slot \in Slots :
        (/\ req[slot].pc # "idle"
         /\ Truthy(req[slot].owner)
         /\ req[slot].subject # req[slot].owner)
            => req[slot].pc = "done" /\ req[slot].status = 403

C13_ThrowWritesError ==
    [][\A slot \in Slots :
         (req[slot].pc \in ExternalSteps /\ req'[slot].pc = "done"
                                         /\ req'[slot].status = 500) =>
            /\ sessions'[RouteSession].phase = "error"
            /\ sessions'[RouteSession].error = req'[slot].thrown
            /\ req'[slot].thrown \in ThrownMessages]_vars

\* A request answered 500 after its external call threw, the session in phase
\* error with the message
C13_Witness ==
    \E slot \in Slots :
        /\ req[slot].pc = "done" /\ req[slot].status = 500
        /\ req[slot].thrown \in ThrownMessages
        /\ sessions[RouteSession].phase = "error"
        /\ sessions[RouteSession].error = req[slot].thrown

\* C14: a phase-step request of the owner that arrives while the stored phase
\* is not the one its step starts from (or, for a refinement, is terminal) is
\* answered 400, and every phase-step request answered 400 leaves the session
\* map exactly as it was: no field changes and the phase is not set to error.
C14_RejectionWritesNothing ==
    [][\A slot \in Slots :
         (/\ started' # started
          /\ FreeSlot(slot)
          /\ req'[slot].kind \in StepKinds
          /\ RouteSession \in DOMAIN sessions
          /\ ~(req'[slot].pc = "done" /\ req'[slot].status \in {403, 404}))
            => LET kind == req'[slot].kind
                   rejected == req'[slot].pc = "done" /\ req'[slot].status = 400
                   phase == sessions[RouteSession].phase
                   wrongPhase ==
                       \/ kind = "questions" /\ phase # "topic"
                       \/ kind = "feedback" /\ phase # "questions"
                       \/ kind = "plan" /\ phase \notin {"questions", "feedback"}
                       \/ kind = "execute" /\ phase # "planning"
                       \/ kind = "refine" /\ phase \in TerminalPhases
               IN  /\ wrongPhase => rejected
                   /\ rejected => sessions' = sessions]_vars

C14_Witness ==
    \E slot \in Slots :
        /\ req[slot].pc = "done" /\ req[slot].kind = "execute"
        /\ req[slot].status = 400
        /\ req[slot].subject = req[slot].owner
        /\ RouteSession \in DOMAIN sessions
        /\ sessions[RouteSession].phase = "questions"
        /\ "results" \notin DOMAIN sessions[RouteSession]

---------------------------------------------------------------------------
(* The stream registry (stream-manager.ts) and the SSE route, with the     *)
(* execute route running beside them. A step is again one event-loop turn:  *)
(* addStream, removeStream and broadcast are synchronous, and the stream    *)
(* route's start callback has no await between addStream and the listener.  *)

MaxBroadcasts == 2      \* broadcast calls per behaviour of SpecStream
MaxExecutes == 1        \* execute requests per behaviour of SpecStream

Channels == {"c1", "c2"}
BroadcastEvents == {"progress", "message"}

\* The orchestrator's events alternate: a progress event, then a message
EventAt(n) == IF n % 2 = 1 THEN "progress" ELSE "message"

\* A controller no stream request has created yet
NoChannel == [state |-> "none", session |-> Undef, received |-> <<>>,
              aborted |-> FALSE, duringStep |-> FALSE]

\* `event: ${event}\ndata: ${JSON.stringify(data)}\n\n`, encoded
Encode(event, data) == [event |-> event, data |-> JSONStringify(data)]

\* controller.enqueue succeeds on a readable stream only: it throws once the
\* controller has been closed or the consumer has cancelled
CanEnqueue(ch) == ch.state = "open"

\* A queue that hands out the newest chunk first
EnqueueInFront(ch, chunk) == [ch EXCEPT !.received = <<chunk>> \o @]

\* controller.enqueue(chunk) on a readable stream
Enqueue(ch, chunk) == [ch EXCEPT !.received = Append(@, chunk)]

\* controller.close()
Close(ch) == [ch EXCEPT !.state = "closed"]

\* The controllers registered for a session, in insertion order
StreamsOf(map, sessionId) == IF sessionId \in DOMAIN map THEN map[sessionId] ELSE <<>>

Members(list) == {list[i] : i \in DOMAIN list}

\* A registry with one set for all sessions
AddStreamShared(map, sessionId, c) ==
    [id \in SessionIds |->
        IF c \in Members(StreamsOf(map, id)) THEN StreamsOf(map, id)
        ELSE Append(StreamsOf(map, id), c)]

\* addStream(sessionId, controller)
AddStream(map, sessionId, c) ==
    LET streams == StreamsOf(map, sessionId)
    IN  Put(map, sessionId, IF c \in Members(streams) THEN streams ELSE Append(streams, c))

\* A removal that drops the session's whole set
RemoveStreamDropsAll(map, sessionId, c) == Remove(map, sessionId)

\* removeStream(sessionId, controller)
RemoveStream(map, sessionId, c) ==
    IF sessionId \notin DOMAIN map THEN map
    ELSE LET rest == SelectSeq(map[sessionId], LAMBDA x : x # c)
         IN  IF Len(rest) = 0 THEN Remove(map, sessionId) ELSE Put(map, sessionId, rest)

RECURSIVE DeliverUntilFailure(_, _, _, _)
RECURSIVE DeliverFrom(_, _, _, _)

\* A loop that stops at the first controller whose enqueue throws
DeliverUntilFailure(order, i, st, encoded) ==
    IF i > Len(order) THEN st
    ELSE LET c == order[i]
         IN  IF CanEnqueue(st.chans[c])
             THEN DeliverUntilFailure(order, i + 1,
                      [st EXCEPT !.chans[c] = Enqueue(@, encoded)], encoded)
             ELSE [st EXCEPT !.streams = SelectSeq(@, LAMBDA x : x # c)]

\* broadcast's loop over the set from its i-th controller on: enqueue, and on
\* a throw delete the controller from the set and go on
DeliverFrom(order, i, st, encoded) ==
    IF i > Len(order) THEN st
    ELSE LET c == order[i]
         IN  IF CanEnqueue(st.chans[c])
             THEN DeliverFrom(order, i + 1,
                      [st EXCEPT !.chans[c] = Enqueue(@, encoded)], encoded)
             ELSE DeliverFrom(order, i + 1,
                      [st EXCEPT !.streams = SelectSeq(@, LAMBDA x : x # c)], encoded)

\* broadcast(sessionId, event, data): the registry and the controllers after it
Broadcast(map, chans, sessionId, event, data) ==
    IF sessionId \notin DOMAIN map THEN [map |-> map, chans |-> chans]
    ELSE LET d == DeliverFrom(map[sessionId], 1,
                              [streams |-> map[sessionId], chans |-> chans],
                              Encode(event, data))
         IN  [map |-> Put(map, sessionId, d.streams), chans |-> d.chans]

\* The events the stream route sends on its own when the stream starts
Connected(session, t) ==
    Encode("connected", [sessionId |-> session.id, phase |-> session.phase,
                         timestamp |-> ToISOString(t)])
FinalReportEvent(session) ==
    Encode("final-report", [finalReport |-> session.finalReport, phase |-> "completed"])
ErrorEvent(session) ==
    Encode("error", [error |-> Field(session, "error"), phase |-> "error"])

\* A start callback that sends the snapshot of a finished session and leaves
\* the stream open
StartStreamStaysOpen(ch, session, t) ==
    LET c1 == Enqueue(ch, Connected(session, t))
    IN  IF session.phase = "completed" /\ Truthy(Field(session, "finalReport"))
        THEN Enqueue(c1, FinalReportEvent(session))
        ELSE IF session.phase = "error"
        THEN Enqueue(c1, ErrorEvent(session))
        ELSE c1

\* The start callback of the route's ReadableStream, after addStream
StartStream(ch, session, t) ==
    LET c1 == Enqueue(ch, Connected(session, t))
    IN  IF session.phase = "completed" /\ Truthy(Field(session, "finalReport"))
        THEN Close(Enqueue(c1, FinalReportEvent(session)))
        ELSE IF session.phase = "error"
        THEN Close(Enqueue(c1, ErrorEvent(session)))
        ELSE c1

\* Some handler is between two external calls of an orchestrator step
StepRunning == \E slot \in Slots : req[slot].pc \in ExternalSteps

StreamFrame == UNCHANGED <<now, dbSessions, issued, lastOp, opCount, rateVars, routeVars>>

FreeChannel(c) ==
    /\ channels[c].state = "none"
    /\ \A o \in Channels : (o # c /\ channels[o].state = "none") => c = "c1"

\* GET .../stream by an authenticated caller: 404, 403, or the stream is set
\* up and registered
StreamGet ==
    \E c \in Channels, sessionId \in SessionIds, caller \in Users :
        /\ FreeChannel(c)
        /\ LET g == StoreGet(sessions, sessionId, now)
               v == ValidateOwnership(g.map, sessionId, caller, now)
           IN  IF g.ret = None \/ ~v.ret
               THEN /\ sessions' = v.map
                    /\ channels' = [channels EXCEPT ![c].state = "refused"]
                    /\ UNCHANGED sessionStreams
               ELSE /\ sessions' = v.map
                    /\ sessionStreams' = AddStream(sessionStreams, sessionId, c)
                    /\ channels' = [channels EXCEPT ![c] =
                           StartStream([NoChannel EXCEPT !.state = "open",
                                                         !.session = sessionId],
                                       g.ret[1], now)]
        /\ UNCHANGED sent
        /\ StreamFrame

\* The request's abort signal fires: removeStream, then controller.close()
StreamAbort ==
    \E c \in Channels :
        /\ channels[c].state \in {"open", "closed"}
        /\ ~channels[c].aborted
        /\ sessionStreams' = RemoveStream(sessionStreams, channels[c].session, c)
        /\ channels' = [channels EXCEPT ![c] =
               [Close(@) EXCEPT !.aborted = TRUE, !.duringStep = StepRunning]]
        /\ UNCHANGED <<sessions, sent>>
        /\ StreamFrame

\* The consumer cancels the response body: the controller stays registered and
\* its enqueue throws from now on
StreamCancel ==
    \E c \in Channels :
        /\ channels[c].state = "open"
        /\ channels' = [channels EXCEPT ![c] = Close(@)]
        /\ UNCHANGED <<sessions, sessionStreams, sent>>
        /\ StreamFrame

\* A call of broadcast, the payload numbered by the call
BroadcastCall ==
    /\ sent.count < MaxBroadcasts
    /\ \E sessionId \in SessionIds :
         LET b == Broadcast(sessionStreams, channels, sessionId,
                            EventAt(sent.count + 1), [seq |-> sent.count + 1])
         IN  /\ sessionStreams' = b.map
             /\ channels' = b.chans
             /\ sent' = [count |-> sent.count + 1, sessionId |-> sessionId]
    /\ UNCHANGED sessions
    /\ StreamFrame

\* The session a client has taken through questions, feedback and plan: the
\* updates of those steps applied in their order
PlannedSession(id, userId) ==
    LET s0 == NewSession(id, Settings, 2, userId, 0)
        s1 == SpreadUpdate(s0, FirstUpdate("questions", s0, [topic |-> "t"]), 0)
        s2 == SpreadUpdate(s1, SuccessUpdate("ext_questions", "q"), 0)
        s3 == SpreadUpdate(s2, FirstUpdate("feedback", s2, [feedback |-> "f"]), 0)
        s4 == SpreadUpdate(s3, SuccessUpdate("ext_feedback", "d"), 0)
        s5 == SpreadUpdate(s4, FirstUpdate("plan", s4, [topic |-> Undef, feedback |-> Undef]), 0)
        s6 == SpreadUpdate(s5, SuccessUpdate("ext_plan", "p"), 0)
    IN  SpreadUpdate(s6, SuccessUpdate("ext_serp", <<"q1", "q2", "q3">>), 0)

InitStream ==
    /\ now = 0
    /\ sessions = [id \in SessionIds |-> PlannedSession(id, "A")]
    /\ dbSessions = <<>>
    /\ issued = SessionIds
    /\ lastOp = NoOp
    /\ opCount = 0
    /\ limits = <<>>
    /\ rlLimit = 1
    /\ rlLog = <<>>
    /\ rlLast = NoOp
    /\ req = [slot \in Slots |-> Idle]
    /\ started = 0
    /\ closed = {}
    /\ sessionStreams = <<>>
    /\ channels = [c \in Channels |-> NoChannel]
    /\ sent = [count |-> 0, sessionId |-> Undef]

NextStream ==
    \/ started < MaxExecutes /\ PostExecute
    \/ \E slot \in Slots : ExternalReturns(slot)
    \/ \E slot \in Slots : ExternalThrows(slot)
    \/ StreamGet
    \/ StreamAbort
    \/ StreamCancel
    \/ BroadcastCall

SpecStream == InitStream /\ [][NextStream]_vars

\* The session SpecStream starts from is one the route handlers produce
PlannedIsReached == sessions # <<>> /\ sessions[RouteSession] = PlannedSession(RouteSession, "A")

---------------------------------------------------------------------------
(* Claims about the stream registry, checked under SpecStream.              *)

\* The chunk the last broadcast call encoded
LastChunk(s) == Encode(EventAt(s.count), [seq |-> s.count])

\* C15: one broadcast call hands exactly one copy of the same encoded event to
\* every live channel attached to the session it names, and nothing to a
\* channel that was detached before the call or is attached to another session.
C15_FanOut ==
    [][sent'.count # sent.count =>
         \A c \in Channels :
             IF /\ channels[c].session = sent'.sessionId
                /\ channels[c].state = "open"
                /\ ~channels[c].aborted
             THEN channels'[c].received = Append(channels[c].received, LastChunk(sent'))
             ELSE channels'[c].received = channels[c].received]_vars

C15_Witness ==
    /\ sent.count = 2
    /\ channels["c1"].session = "s1" /\ channels["c2"].session = "s1"
    /\ channels["c2"].aborted /\ channels["c1"].state = "open"
    /\ Len(channels["c1"].received) = 3 /\ Len(channels["c2"].received) = 2
    /\ channels["c1"].received[2] = channels["c2"].received[2]
    /\ channels["c1"].received[2].event = "progress"
    /\ channels["c1"].received[3].event = "message"

\* The phase the session had when the channel was set up, as the connected
\* event reports it
AttachedPhase(ch) == JSONParse(ch.received[1].data).phase

C17_SubscriberSeesOutcome ==
    \A c \in Channels :
        (/\ channels[c].state = "open"
         /\ channels[c].session = RouteSession
         /\ c \in Members(StreamsOf(sessionStreams, RouteSession))
         /\ AttachedPhase(channels[c]) \notin TerminalPhases
         /\ sessions[RouteSession].phase \in TerminalPhases
         /\ ~StepRunning)
            => \E i \in DOMAIN channels[c].received :
                  channels[c].received[i].event =
                      IF sessions[RouteSession].phase = "completed"
                      THEN "final-report" ELSE "error"

\* C18: in a broadcast call, a registered controller whose enqueue throws is
\* deleted from the set of the session and no other controller is; every
\* registered controller that accepts the chunk stays registered and holds it
\* as its last chunk; the sets of the other sessions are as they were and the
\* call returns to its caller.
C18_FailureIsolated ==
    [][sent'.count # sent.count =>
         LET sid == sent'.sessionId
             before == Members(StreamsOf(sessionStreams, sid))
             after == Members(StreamsOf(sessionStreams', sid))
         IN  /\ after = {c \in before : CanEnqueue(channels[c])}
             /\ \A c \in after :
                   channels'[c].received = Append(channels[c].received, LastChunk(sent'))
             /\ \A other \in SessionIds \ {sid} :
                   StreamsOf(sessionStreams', other) = StreamsOf(sessionStreams, other)
             /\ sent'.count = sent.count + 1]_vars

C18_Witness ==
    /\ sent.count = 1 /\ sent.sessionId = "s1"
    /\ channels["c1"].session = "s1" /\ channels["c2"].session = "s1"
    /\ channels["c1"].state = "closed" /\ ~channels["c1"].aborted
    /\ Len(channels["c1"].received) = 1
    /\ sessionStreams["s1"] = <<"c2">>
    /\ channels["c2"].state = "open"
    /\ channels["c2"].received[Len(channels["c2"].received)] = LastChunk(sent)

C20_DisconnectIsLocal ==
    [][\A c \in Channels :
         (channels'[c].aborted /\ ~channels[c].aborted)
            => /\ \A sid \in SessionIds :
                     Members(StreamsOf(sessionStreams', sid))
                        = Members(StreamsOf(sessionStreams, sid)) \ {c}
               /\ \A o \in Channels \ {c} : channels'[o] = channels[o]
               /\ req' = req
               /\ sessions' = sessions]_vars

C20_Witness ==
    /\ channels["c1"].aborted /\ channels["c1"].duringStep
    /\ channels["c1"].session = RouteSession
    /\ channels["c2"].session = RouteSession
    /\ channels["c2"].state = "open"
    /\ sessionStreams[RouteSession] = <<"c2">>
    /\ \E slot \in Slots :
          /\ req[slot].pc = "done" /\ req[slot].kind = "execute"
          /\ req[slot].status = 200
    /\ sessions[RouteSession].phase = "completed"
    /\ Len(sessions[RouteSession].results) = 3

---------------------------------------------------------------------------
(* Deletion of a session while a step runs and while streams are open.      *)

\* DELETE /api/research/sessions/{id} by an authenticated caller: 404, 403, or
\* the session is deleted; the route does not touch the stream registry
DeleteSession ==
    /\ \E sessionId \in SessionIds, caller \in Users :
         LET g == StoreGet(sessions, sessionId, now)
             v == ValidateOwnership(g.map, sessionId, caller, now)
         IN  /\ g.ret # None
             /\ sessions' = IF v.ret THEN ManagerDelete(v.map, sessionId, now).map
                            ELSE v.map
    /\ UNCHANGED <<sessionStreams, channels, sent>>
    /\ StreamFrame

NextDelete ==
    \/ started < MaxExecutes /\ PostExecute
    \/ \E slot \in Slots : ExternalReturns(slot)
    \/ \E slot \in Slots : ExternalThrows(slot)
    \/ StreamGet
    \/ StreamAbort
    \/ DeleteSession

SpecDelete == InitStream /\ [][NextDelete]_vars

\* C21: an orchestrator step goes on to its next call, or answers 200, only
\* when the update it issued on the return of its external call found the
\* session and wrote it.
C21_SuccessMeansWritten ==
    [][\A slot \in Slots :
         (/\ req[slot].pc \in ExternalSteps
          /\ req'[slot] # req[slot]
          /\ ~(req'[slot].pc = "done" /\ req'[slot].status = 500))
            => /\ StoreGet(sessions, RouteSession, now).ret # None
               /\ RouteSession \in DOMAIN sessions']_vars

---------------------------------------------------------------------------
(* Two update calls in flight at once. SessionManager.update reads the      *)
(* record when it is called (store.get runs up to its return), is suspended *)
(* by its await, and merges and writes when it is resumed; another call can *)
(* start in between. DatabaseSessionManager.update issues one UPDATE         *)
(* statement that sets the named columns.                                    *)

\* Partial updates on fields no two of which share a key
RaceUpdates == {[topic |-> "t"], [questions |-> "q"], [feedback |-> "f"]}

\* update(sessionId, updates) is called: the in-memory manager reads the record
\* and awaits, the database manager writes its columns
UpdateCalled(slot) ==
    /\ opCount < MaxOps
    /\ req[slot].pc \in {"idle", "done"}
    /\ \E updates \in RaceUpdates :
         LET g == StoreGet(sessions, RouteSession, now)
             d == DbUpdate(dbSessions, RouteSession, updates, now, FALSE)
         IN  /\ sessions' = g.map
             /\ dbSessions' = d.tbl
             /\ req' = [req EXCEPT ![slot] =
                          [pc |-> "await_get", updates |-> updates, read |-> g.ret,
                           overlaps |-> {o \in Slots : req[o].pc = "await_get"}]]
    /\ opCount' = opCount + 1
    /\ UNCHANGED <<now, issued, lastOp, rateVars, started, closed, streamVars>>

\* The awaited get has resolved: null for a missing session, else the merge of
\* the record read and the updates is stored
UpdateResumes(slot) ==
    /\ req[slot].pc = "await_get"
    /\ sessions' = IF req[slot].read = None THEN sessions
                   ELSE Put(sessions, RouteSession,
                            SpreadUpdate(req[slot].read[1], req[slot].updates, now))
    /\ req' = [req EXCEPT ![slot].pc = "done"]
    /\ UNCHANGED <<now, dbSessions, issued, lastOp, opCount, rateVars, started,
                   closed, streamVars>>

InitRace ==
    /\ now = 0
    /\ sessions = [id \in {RouteSession} |-> NewSession(id, Settings, MaxTime + 1, "A", 0)]
    /\ dbSessions = [id \in {RouteSession} |-> NewRow(id, Settings, MaxTime + 1, "A", 0)]
    /\ issued = {RouteSession}
    /\ lastOp = NoOp
    /\ opCount = 0
    /\ limits = <<>>
    /\ rlLimit = 1
    /\ rlLog = <<>>
    /\ rlLast = NoOp
    /\ req = [slot \in Slots |-> Idle]
    /\ started = 0
    /\ closed = {}
    /\ sessionStreams = <<>>
    /\ channels = <<>>
    /\ sent = [count |-> 0, sessionId |-> Undef]

NextRace ==
    \/ Tick
    \/ \E slot \in Slots : UpdateCalled(slot)
    \/ \E slot \in Slots : UpdateResumes(slot)

SpecRace == InitRace /\ [][NextRace]_vars

\* C22: when two update calls on one id that name different fields have both
\* returned, one of them having started while the other was in flight, the
\* stored record of each manager holds the fields of both.
C22_NoLostUpdate ==
    \A a, b \in Slots :
        (/\ a # b
         /\ req[a].pc = "done" /\ req[b].pc = "done"
         /\ a \in req[b].overlaps
         /\ DOMAIN req[a].updates # DOMAIN req[b].updates)
            => \A slot \in {a, b} : \A f \in DOMAIN req[slot].updates :
                  /\ Field(sessions[RouteSession], f) = req[slot].updates[f]
                  /\ dbSessions[RouteSession][f] = req[slot].updates[f]

---------------------------------------------------------------------------
(* list(userId) of both managers, applied to the stores SpecRepo reaches.   *)

\* InMemorySessionStore.list: expired sessions are deleted and left out, the
\* others are kept when they belong to userId, or all of them without a userId
StoreList(map, userId, t) ==
    LET expired == {id \in DOMAIN map : map[id].expiresAt < t}
    IN  [ret |-> {map[id] : id \in {x \in (DOMAIN map) \ expired :
                                      Truthy(userId) => Field(map[x], "userId") = userId}},
         map |-> [id \in (DOMAIN map) \ expired |-> map[id]]]

\* DatabaseSessionManager.list: the rows of userId, or all rows without one,
\* reduced to five fields
DbList(tbl, userId) ==
    {[id |-> tbl[id].id, createdAt |-> ParseDate(tbl[id].createdAt),
      updatedAt |-> ParseDate(tbl[id].updatedAt), phase |-> tbl[id].phase,
      topic |-> OrUndefined(tbl[id].topic)] :
        id \in {x \in DOMAIN tbl : Truthy(userId) => tbl[x].userId = userId}}

\* C23: for every user, list returns the sessions of that user that get still
\* returns, and no other: none of another owner and none that has expired.
C23_ListOwnUnexpired ==
    \A userId \in Users :
        /\ {e.id : e \in StoreList(sessions, userId, now).ret}
              = {id \in DOMAIN sessions :
                    /\ Field(sessions[id], "userId") = userId
                    /\ StoreGet(sessions, id, now).ret # None}
        /\ {e.id : e \in DbList(dbSessions, userId)}
              = {id \in DOMAIN dbSessions :
                    /\ dbSessions[id].userId = userId
                    /\ DbGet(dbSessions, id, now, FALSE).ret # None}

---------------------------------------------------------------------------
(* The execute route behind withRateLimit (production mode).                *)

\* POST .../execute through withRateLimit(req, "sessions:execute", handler):
\* the 429 response when the check leaves nothing, else the handler
GatedExecute ==
    /\ started < MaxRequests
    /\ \E slot \in Slots, subject \in Users, body \in Bodies("execute") :
         LET c == CheckRateLimit(limits, subject, "sessions:execute", rlLimit, now)
         IN  /\ FreeSlot(slot)
             /\ limits' = c.limits
             /\ rlLast' = [key |-> RateKey(subject, "sessions:execute"), t |-> now,
                           info |-> c.info, admitted |-> Admitted(c.info)]
             /\ IF Admitted(c.info)
                THEN PhaseStep(slot, "execute", subject, body)
                ELSE /\ req' = [req EXCEPT ![slot] = Done(Arrived("execute", subject), 429)]
                     /\ UNCHANGED sessions
    /\ started' = started + 1
    /\ Track
    /\ UNCHANGED <<now, dbSessions, issued, lastOp, opCount, rlLimit, rlLog, streamVars>>

InitGate ==
    /\ now = 0
    /\ sessions = [id \in {RouteSession} |-> PlannedSession(id, "A")]
    /\ dbSessions = <<>>
    /\ issued = {RouteSession}
    /\ lastOp = NoOp
    /\ opCount = 0
    /\ limits = <<>>
    /\ rlLimit \in 1..MaxLimit
    /\ rlLog = <<>>
    /\ rlLast = NoOp
    /\ req = [slot \in Slots |-> Idle]
    /\ started = 0
    /\ closed = {}
    /\ sessionStreams = <<>>
    /\ channels = <<>>
    /\ sent = [count |-> 0, sessionId |-> Undef]

NextGate ==
    \/ Tick
    \/ GatedExecute
    \/ \E slot \in Slots : ExternalReturns(slot)
    \/ \E slot \in Slots : ExternalThrows(slot)

SpecGate == InitGate /\ [][NextGate]_vars

\* C24: a request for which the limiter's check leaves no remaining quota is
\* answered 429, a response and not a failure of the handler chain, with the
\* limit, remaining 0 and the reset time of the window; its handler does not
\* run: the session map is as it was.
C24_DenialIsValue ==
    [][\A slot \in Slots :
         (/\ started' # started
          /\ FreeSlot(slot)
          /\ CheckRateLimit(limits, req'[slot].subject, "sessions:execute",
                            rlLimit, now).info.remaining <= 0)
            => /\ req'[slot].pc = "done" /\ req'[slot].status = 429
               /\ rlLast'.info.remaining = 0
               /\ rlLast'.info.limit = rlLimit
               /\ rlLast'.info.resetTime = limits'[rlLast'.key].resetTime
               /\ sessions' = sessions]_vars

C24_Witness ==
    /\ rlLimit = 2
    /\ \E slot \in Slots :
          /\ req[slot].pc = "done" /\ req[slot].status = 429
          /\ req[slot].subject = "A"
    /\ \E slot \in Slots : req[slot].pc = "ext_search" /\ req[slot].subject = "A"
    /\ rlLast.info.remaining = 0
    /\ sessions[RouteSession].phase = "executing"

---------------------------------------------------------------------------
(* Further claims about the route handlers, checked under Spec.             *)

\* C25: a session whose stored phase is error keeps that phase in every later
\* step, whatever request or in-flight orchestrator step writes to it.
C25_ErrorIsFinal ==
    [][\A id \in (DOMAIN sessions) \cap (DOMAIN sessions') :
         sessions[id].phase = "error" => sessions'[id].phase = "error"]_vars

\* C26: the stored phase becomes completed only from executing, and only when
\* the results stored hold an outcome, completed or failed, for every task of
\* the session.
C26_CompletedAfterAllTasks ==
    [][\A id \in (DOMAIN sessions) \cap (DOMAIN sessions') :
         (sessions[id].phase # "completed" /\ sessions'[id].phase = "completed")
            => /\ sessions[id].phase = "executing"
               /\ "results" \in DOMAIN sessions'[id]
               /\ Len(sessions'[id].results) = Len(sessions'[id].tasks)
               /\ \A i \in DOMAIN sessions'[id].results :
                     /\ sessions'[id].results[i].query = sessions'[id].tasks[i]
                     /\ sessions'[id].results[i].state \in {"completed", "failed"}]_vars

---------------------------------------------------------------------------
(* Further claims about the stream registry.                                *)

\* C27: the registry maps no session id to an empty set of controllers.
C27_NoEmptySet ==
    \A sessionId \in DOMAIN sessionStreams : sessionStreams[sessionId] # <<>>

\* C28: a session that has been deleted has no controller registered under
\* its id.
C28_DeletedHasNoStreams ==
    \A sessionId \in issued \ DOMAIN sessions :
        StreamsOf(sessionStreams, sessionId) = <<>>

---------------------------------------------------------------------------
(* A further claim about the rate limiter, checked under SpecRate.          *)

---------------------------------------------------------------------------
(* The two managers side by side *)

\* The fields of a returned session the callers read
ResultFields == {"id", "userId", "phase", "expiresAt", "topic", "questions",
                 "feedback", "reportPlan", "finalReport", "error"}

\* The two stores hold the same sessions: same ids, same owner, phase and expiry
StoresAgree(map, tbl) ==
    /\ DOMAIN map = DOMAIN tbl
    /\ \A id \in DOMAIN map :
          LET r == ConvertDbSessionToResearchSession(tbl[id])
          IN  \A f \in ResultFields : Field(map[id], f) = Field(r, f)

\* C31: the in-memory SessionManager and the DatabaseSessionManager are
\* interchangeable: a call made on both from stores holding the same sessions,
\* at the same clock reading and with no database failure, returns the same
\* result from both (presence or absence and the fields of the session,
\* the boolean of delete, the count of cleanup, the ids of list).
C31_Interchangeable ==
    /\ (lastOp.op # "none" /\ ~lastOp.fault /\ StoresAgree(lastOp.preMem, lastOp.preDb)) =>
          IF lastOp.op \in {"delete", "cleanup"} THEN lastOp.mem = lastOp.db
          ELSE /\ (lastOp.mem = None) = (lastOp.db = None)
               /\ lastOp.mem # None =>
                     \A f \in ResultFields :
                         Field(lastOp.mem[1], f) = Field(lastOp.db[1], f)
    /\ StoresAgree(sessions, dbSessions) =>
          \A userId \in Owners :
              {e.id : e \in StoreList(sessions, userId, now).ret}
                  = {e.id : e \in DbList(dbSessions, userId)}

---------------------------------------------------------------------------
(* Execution and the plan step *)

\* A plan step of the session is in flight: its handler waits for the report
\* plan or for the task list
PlanInFlight == \E slot \in Slots : req[slot].pc \in {"ext_plan", "ext_serp"}

\* C32: an execute request is never accepted while a plan step of the same
\* session is in flight: whenever the execute route accepts a request (writes
\* phase executing and starts the searches), no plan handler is waiting for its
\* report plan or its task list.
C32_NoExecuteDuringPlan ==
    [][\A slot \in Slots :
          (req[slot].pc \in {"idle", "done"} /\ req'[slot].pc = "ext_search")
              => ~PlanInFlight]_vars

---------------------------------------------------------------------------
(* Termination of the phase steps *)

\* Every external call a handler waits for eventually returns or throws
SpecLive ==
    Spec /\ \A slot \in Slots : WF_vars(ExternalReturns(slot) \/ ExternalThrows(slot))

\* The phase a step of each kind writes on success
SuccessPhase(kind) ==
    CASE kind = "questions" -> "questions"
      [] kind = "feedback" -> "feedback"
      [] kind = "plan" -> "planning"
      [] kind = "execute" -> "completed"

\* The session is in one of the phases, or is no longer stored
LeftIn(phases) ==
    RouteSession \in DOMAIN sessions => sessions[RouteSession].phase \in phases

\* The handler in the slot waits for an external call
InFlight(slot) == req[slot].pc \in ExternalSteps

\* C33: with every external call eventually returning or throwing, every
\* accepted phase step eventually finishes; a step that finishes leaves the
\* session in its success phase or in error (or no longer stored); and no
\* session stays in executing forever once no step is in flight.
C33_StepsFinish ==
    /\ \A slot \in Slots : InFlight(slot) ~> (req[slot].pc = "done")
    /\ [][\A slot \in Slots :
            (InFlight(slot) /\ req'[slot].pc = "done")
                => LeftIn({SuccessPhase(req[slot].kind), "error"})']_vars
    /\ ~<>[](/\ RouteSession \in DOMAIN sessions
             /\ sessions[RouteSession].phase = "executing"
             /\ \A slot \in Slots : ~InFlight(slot))

---------------------------------------------------------------------------
(* SpecHang: an external call that never returns *)

\* The handler whose external calls never settle
HungSlot == "r1"

\* The steps of Spec without a return of the hung handler's calls; the code
\* starts no timer and passes no abort signal, so nothing else ends them
NextHang ==
    \/ CreateSession
    \/ PostQuestions
    \/ PostFeedback
    \/ PostPlan
    \/ PostExecute
    \/ PostRefine
    \/ PutSuggestion
    \/ \E slot \in Slots : SuggestionBody(slot)
    \/ \E slot \in Slots \ {HungSlot} : ExternalReturns(slot)
    \/ \E slot \in Slots \ {HungSlot} : ExternalThrows(slot)

\* The calls of the other handlers settle and the event loop resumes them
SpecHang ==
    /\ Init
    /\ [][NextHang]_vars
    /\ \A slot \in Slots \ {HungSlot} :
          WF_vars(ExternalReturns(slot) \/ ExternalThrows(slot))

\* C34: a phase step whose external call never returns is eventually ended by
\* a deadline and treated as a step failure: its handler answers and the
\* session is in phase error (or no longer stored).
C34_DeadlineEndsHungStep ==
    InFlight(HungSlot) ~> (req[HungSlot].pc = "done" /\ LeftIn({"error"}))

---------------------------------------------------------------------------
(* Absence *)

\* C35: absence is permanent. Once get(id) has returned absent for a created
\* session (deleted or expired), every later get(id) returns absent and every
\* later update or extendExpiration on that id returns absent as well and
\* stores nothing, in both managers.
C35_AbsenceIsPermanent ==
    /\ lastOp.op # "none" =>
          /\ \A id \in lastOp.absentMem :
                /\ id \notin DOMAIN sessions
                /\ StoreGet(sessions, id, now).ret = None
          /\ \A id \in lastOp.absentDb :
                /\ id \notin DOMAIN dbSessions
                /\ DbGet(dbSessions, id, now, FALSE).ret = None
    /\ lastOp.op \in {"get", "update", "extend"} =>
          /\ lastOp.id \in lastOp.absentMem => lastOp.mem = None
          /\ lastOp.id \in lastOp.absentDb => lastOp.db = None

\* An extendExpiration on a session that a get had found absent in both managers
C35_Witness ==
    /\ lastOp.op = "extend"
    /\ lastOp.id \in lastOp.absentMem /\ lastOp.id \in lastOp.absentDb
    /\ lastOp.mem = None /\ lastOp.db = None

---------------------------------------------------------------------------
(* The counters of the rate limiter *)

\* C36: for every key and every limit of 1 or more, the stored count is between
\* 1 and the limit, and every check result reports a remaining between 0 and
\* limit - 1 (and the limit it was called with).
C36_CountWithinLimit ==
    /\ \A key \in DOMAIN limits :
          1 <= limits[key].count /\ limits[key].count <= rlLimit
    /\ \A i \in 1..Len(rlLog) :
          /\ 0 <= rlLog[i].info.remaining
          /\ rlLog[i].info.remaining <= rlLimit - 1
          /\ rlLog[i].info.limit = rlLimit

\* A key whose count has reached a limit of 2 or more, and a call refused on it
C36_Witness ==
    /\ rlLimit >= 2
    /\ rlLast # NoOp
    /\ rlLast.key \in DOMAIN limits
    /\ limits[rlLast.key].count = rlLimit
    /\ rlLast.nth = rlLimit + 1
    /\ rlLast.info.remaining = 0

\* C37: a check made inside the window of a key whose count has reached the
\* limit is refused (remaining 0, the window's own reset time) and leaves the
\* limiter exactly as it was: the count and the reset time of the key, and
\* every other key.
C37_DenialLeavesCounter ==
    [][\A key \in DOMAIN limits :
          (/\ rlLog' # rlLog
           /\ rlLast'.key = key
           /\ now <= limits[key].resetTime
           /\ limits[key].count >= rlLimit)
          => /\ limits' = limits
             /\ ~rlLast'.admitted
             /\ rlLast'.info.remaining = 0
             /\ rlLast'.info.resetTime = limits[key].resetTime]_vars

\* Two calls refused one after the other on a full counter, the second one
\* reporting the reset time of the first
C37_Witness ==
    \E i \in 1..Len(rlLog) :
        /\ i + 1 \in 1..Len(rlLog)
        /\ rlLog[i].key = rlLog[i + 1].key
        /\ rlLog[i].nth > rlLimit /\ rlLog[i + 1].nth > rlLimit
        /\ ~rlLog[i + 1].admitted
        /\ rlLog[i + 1].info.resetTime = rlLog[i].info.resetTime
        /\ limits[rlLog[i].key].count = rlLimit

\* The limiter after the first n calls of the log, had no sweep ever run
RECURSIVE LimitsAfter(_, _)
LimitsAfter(log, n) ==
    IF n = 0 THEN <<>>
    ELSE RateCheck(LimitsAfter(log, n - 1), log[n].key, rlLimit, WindowMs, log[n].t).limits

\* C38: the sweep is transparent. The calls made so far, with sweeps having run
\* at any points between them, returned what the same calls at the same times
\* return from a limiter that is never swept; and the limiter differs from the
\* unswept one only by counters whose window has elapsed.
C38_SweepTransparent ==
    /\ \A i \in 1..Len(rlLog) :
          LET r == RateCheck(LimitsAfter(rlLog, i - 1), rlLog[i].key, rlLimit,
                             WindowMs, rlLog[i].t)
          IN  /\ r.info = rlLog[i].info
              /\ Admitted(r.info) = rlLog[i].admitted
    /\ RateCleanup(LimitsAfter(rlLog, Len(rlLog)), now) = RateCleanup(limits, now)

\* A sweep has removed a counter that the unswept limiter still holds, and a
\* key whose window had elapsed was called again and started a new window
C38_Witness ==
    \E i, j \in 1..Len(rlLog) :
        /\ i < j
        /\ rlLog[i].key = rlLog[j].key
        /\ rlLog[j].t > rlLog[i].info.resetTime
        /\ rlLog[j].nth = 1
        /\ \E key \in DOMAIN LimitsAfter(rlLog, Len(rlLog)) : key \notin DOMAIN limits

===========================================================================
